---------------------------- MODULE Spec2Model ----------------------------
(***************************************************************************)
(* Model of the authentication and authorization layer of the backend:     *)
(* the conditional auth gate (src/utils/auth.py), the user-settings        *)
(* repository (src/repositories/user_settings.py), the protected /users    *)
(* handlers (src/api/v1/users.py), the /auth handlers (src/api/v1/auth.py) *)
(* with the AuthService gateway (src/services/auth_service.py) and the     *)
(* request models (src/models).                                            *)
(*                                                                         *)
(* Four specifications share the module:                                   *)
(*   Spec     concurrent requests to the protected /users routes: what     *)
(*            the requests do to the settings table;                       *)
(*   SpecSeq  the same requests, handled one after the other, with the     *)
(*            history of every request (calls issued, answers) kept;       *)
(*   SpecAuth requests to the /auth endpoints and the client's cookies;    *)
(*   SpecPw   request-body validation of sign-up and change-password.      *)
(***************************************************************************)
EXTENDS Integers, Sequences, FiniteSets, TLC

VARIABLES
    store,   \* the upstream user_settings table: a sequence of rows
    req,     \* the requests to the protected routes, by request slot
    audit,   \* whether the requests keep their history and their responses
    env,     \* settings.ENVIRONMENT, a string as its characters
    jar,     \* the cookies the client of the /auth endpoints holds
    exch     \* the last exchange with an /auth endpoint: request, upstream
             \* calls, gateway result, response

usersVars == <<store, req, audit>>

authVars == <<env, jar, exch>>

vars == <<store, req, audit, env, jar, exch>>

-----------------------------------------------------------------------------
(* Bounds of the model.                                                    *)

\* the wall clock jwt.decode reads runs from 1 to MaxClock
MaxClock == 2

\* the passwords of the validation requests have up to MaxPwLen characters
MaxPwLen == 8

\* the request slots; a slot is free again once its request is answered
Requests == {"r1", "r2"}

-----------------------------------------------------------------------------
(* Python values.                                                          *)

\* None where a string is expected (a claim value, a header)
NoneStr == "<None>"

\* None where a dict is expected (a payload, a row, a principal)
NoneDict == [py |-> "None"]

\* the empty dict {}
EmptyDict == [k \in {} |-> 0]

\* Python truthiness of a string or None
TruthyStr(s) == s # NoneStr /\ s # ""

\* Python truthiness of a dict or None
TruthyDict(d) == d # NoneDict /\ d # EmptyDict

-----------------------------------------------------------------------------
(* Tokens and their verification.                                          *)

\* settings.SUPABASE_JWT_SECRET
JwtSecret == "jwt-secret"

\* an expiry no clock value of the model reaches
FarExp == MaxClock + 1

\* the rows of the upstream auth.users table
AuthUsers == {"u1"}

\* a signed token: the key that signed it and its claims
Jwt(key, claims) == [wellformed |-> TRUE, key |-> key, claims |-> claims]

\* a string that is not a JWT at all
GarbageToken == [wellformed |-> FALSE, key |-> "", claims |-> EmptyDict]

TokU1 == Jwt(JwtSecret, [sub |-> "u1", email |-> "u1@example.com", exp |-> FarExp])
TokU1Expiring == Jwt(JwtSecret, [sub |-> "u1", email |-> "u1@example.com", exp |-> 1])
TokU1Expired == Jwt(JwtSecret, [sub |-> "u1", email |-> "u1@example.com", exp |-> 0])
TokU1WrongKey == Jwt("other-secret", [sub |-> "u1", email |-> "u1@example.com", exp |-> FarExp])
TokGhost == Jwt(JwtSecret, [sub |-> "ghost", email |-> "ghost@example.com", exp |-> FarExp])
TokNoSub == Jwt(JwtSecret, [email |-> "anon@example.com", exp |-> FarExp])
TokEmptySub == Jwt(JwtSecret, [sub |-> "", email |-> "anon@example.com", exp |-> FarExp])
TokNoClaims == Jwt(JwtSecret, EmptyDict)

Tokens ==
    { TokU1, TokU1Expiring, TokU1Expired, TokU1WrongKey, TokGhost, TokNoSub,
      TokEmptySub, TokNoClaims, GarbageToken }

\* decode_jwt that does not verify the signature
decode_jwt_Unverified(token, now) ==
    IF ~token.wellformed THEN NoneDict
    ELSE IF "exp" \in DOMAIN token.claims /\ token.claims.exp < now THEN NoneDict
    ELSE token.claims

\* decode_jwt that does not look at exp
decode_jwt_NoExpiry(token, now) ==
    IF ~token.wellformed THEN NoneDict
    ELSE IF token.key # JwtSecret THEN NoneDict
    ELSE token.claims

\* decode_jwt that refuses a token without a sub claim
decode_jwt_RequiresSub(token, now) ==
    IF ~token.wellformed THEN NoneDict
    ELSE IF token.key # JwtSecret THEN NoneDict
    ELSE IF "exp" \in DOMAIN token.claims /\ token.claims.exp < now THEN NoneDict
    ELSE IF "sub" \notin DOMAIN token.claims THEN NoneDict
    ELSE token.claims

\* jwt.decode(token, secret, algorithms=["HS256"], options={"verify_aud": False}):
\* the claims, or None where jose raises JWTError (not a JWT, bad signature,
\* exp in the past)
decode_jwt(token, now) ==
    IF ~token.wellformed THEN NoneDict
    ELSE IF token.key # JwtSecret THEN NoneDict
    ELSE IF "exp" \in DOMAIN token.claims /\ token.claims.exp < now THEN NoneDict
    ELSE token.claims

\* JWTBearer.verify_jwt: bool(payload)
verify_jwt(token, now) == TruthyDict(decode_jwt(token, now))

\* dict.get(key) on a payload
Get(d, k) == IF d # NoneDict /\ k \in DOMAIN d THEN d[k] ELSE NoneStr


-----------------------------------------------------------------------------
(* Requests to the protected routes.                                       *)

\* an Authorization header "Bearer" with nothing after the scheme
EmptyCredentials == [empty |-> TRUE]

\* the Authorization headers of the model; NoneDict is "no header"
Headers ==
    {NoneDict}
    \cup {[scheme |-> "Bearer", credentials |-> t] : t \in Tokens}
    \cup { [scheme |-> "Bearer", credentials |-> EmptyCredentials],
           [scheme |-> "bearer", credentials |-> TokU1],
           [scheme |-> "Basic", credentials |-> TokU1] }

\* a field the request body does not carry
Absent == "<absent>"

\* the JSON bodies of PUT /users/me/settings: every subset of the fields
Bodies ==
    [theme : {Absent, "dark"}, language : {Absent, "fr"},
     timezone : {Absent, "Europe/Paris"}]

\* the handlers of users.router and the methods that reach them: the GET
\* handlers branch on OPTIONS, update_user_settings is reached by PUT only
Endpoints ==
    { [handler |-> "get_current_user_info", method |-> "GET"],
      [handler |-> "get_current_user_info", method |-> "OPTIONS"],
      [handler |-> "get_user_settings", method |-> "GET"],
      [handler |-> "get_user_settings", method |-> "OPTIONS"],
      [handler |-> "update_user_settings", method |-> "PUT"] }

\* a request slot before its request arrives
IdleReq ==
    [ pc |-> "idle", method |-> "", handler |-> "", header |-> NoneDict,
      body |-> NoneDict,
      token |-> EmptyCredentials,  \* what JWTBearer returned
      user |-> NoneDict,           \* what conditional_auth returned
      gate |-> "Pending",          \* Pending, Bypassed, Authenticated, Rejected, Error
      status |-> 0, detail |-> "", result |-> NoneDict,
      ctx |-> "",                  \* who runs _ensure_user_settings: auth or handler
      now |-> 0,                   \* the time of the first decode, until the second
      decodes |-> 0,               \* calls of decode_jwt
      nCheck |-> 0,                \* check_user_exists calls issued
      nEnsure |-> 0,               \* ensure_user_settings calls issued
      nTable |-> 0,                \* table select/update calls issued
      provFailed |-> FALSE,        \* a provisioning step of the gate raised
      handlerRan |-> FALSE,
      ensured |-> << >>,           \* what the ensure calls returned, in order
      before |-> NoneDict,         \* the row of the user when the update was issued
      raised |-> NoneDict,         \* the exception the handler caught
      clock |-> 0 ]                \* the time of the latest decode

\* exceptions: the class and the phrases of str(e) the handlers look for
Exc(class, phrases) == [class |-> class, phrases |-> phrases]

\* BaseRepository.initialize: get_supabase_client raised
InitError == Exc("Exception", {"Failed to initialize Supabase client"})

\* the upstream answered with an error (postgrest APIError, httpx error)
ApiError == Exc("Exception", {"upstream error"})

\* the upstream insert hit the foreign key of user_settings.id
FkError == Exc("Exception", {"violates foreign key constraint", "user_settings_id_fkey"})

\* _ensure_user_settings: the user is not in auth.users
UserMissingError == Exc("ValueError", {"does not exist", "Valid user account required"})

\* _ensure_user_settings: the RPC answered without data
EnsureEmptyError == Exc("ValueError", {"Failed to ensure user settings"})

\* get_user_settings / update_user_settings: no row came back
SettingsNotFoundError == Exc("ValueError", {"Settings not found for user"})

\* the exception an upstream outcome stands for
UpstreamExc(outcome) == IF outcome = "fk_violation" THEN FkError ELSE ApiError

\* the fields of a request that only record what happened
Forget(q) ==
    [q EXCEPT !.header = NoneDict, !.body = NoneDict, !.decodes = 0, !.nCheck = 0, !.nEnsure = 0, !.nTable = 0,
              !.provFailed = FALSE, !.handlerRan = FALSE, !.ensured = << >>,
              !.before = NoneDict, !.raised = NoneDict, !.clock = 0]

\* a request as the state keeps it: whole under audit, else without its
\* history and, once answered, without its response
View(q) ==
    IF audit THEN q
    ELSE IF q.pc = "done" THEN [IdleReq EXCEPT !.pc = "done"]
    ELSE Forget(q)

\* a finished request
Respond(q, status, detail, result) ==
    [q EXCEPT !.pc = "done", !.status = status, !.detail = detail, !.result = result]

-----------------------------------------------------------------------------
(* The user_settings table and the two upstream procedures.                *)

\* the row ensure_user_settings inserts
DefaultRow(uid) == [id |-> uid, theme |-> "light", language |-> "en", timezone |-> "UTC"]

\* the rows of a table with this id, in table order
RowsOf(table, uid) == SelectSeq(table, LAMBDA row : row.id = uid)

\* RPC check_user_exists(user_id_param): {"exists": bool}
CheckUserExistsRpc(uid) == uid \in AuthUsers

\* RPC ensure_user_settings(): one upstream transaction that inserts the
\* default row of the caller unless the caller has a row; the table after it
EnsureUserSettingsRpc(table, uid) ==
    IF RowsOf(table, uid) # << >> THEN table ELSE Append(table, DefaultRow(uid))

-----------------------------------------------------------------------------
(* The auth gate: conditional_auth, JWTBearer, get_current_user.           *)

\* the status of the HTTPException that HTTPBearer and JWTBearer raise
Forbidden == 403

\* the status get_current_user and the handlers raise without a principal
Unauthorized == 401

\* the outcome of JWTBearer.__call__: the token, or the HTTPException raised
Rejection(detail) == [ok |-> FALSE, status |-> Forbidden, detail |-> detail, token |-> EmptyCredentials]

\* JWTBearer.__call__: HTTPBearer reads the header (no header, no scheme or
\* no credentials: "Not authenticated"; a scheme other than bearer in any
\* case: "Invalid authentication credentials"), then the scheme must be
\* exactly "Bearer" and the token must pass verify_jwt
JWTBearerCall(header, now) ==
    IF header = NoneDict \/ header.credentials = EmptyCredentials
    THEN Rejection("Not authenticated")
    ELSE IF header.scheme \notin {"Bearer", "bearer"}
    THEN Rejection("Invalid authentication credentials")
    ELSE IF header.scheme # "Bearer"
    THEN Rejection("Invalid authentication scheme.")
    ELSE IF ~verify_jwt(header.credentials, now)
    THEN Rejection("Invalid token or expired token.")
    ELSE [ok |-> TRUE, status |-> 0, detail |-> "", token |-> header.credentials]

\* a request arrives and is routed: its method and its handler. Its
\* Authorization header and its body are drawn where the code first reads
\* them.
Receive(r) ==
    /\ req[r].pc = "idle"
    /\ \E e \in Endpoints :
          req' = [req EXCEPT ![r] =
                     View([IdleReq EXCEPT !.pc = "gate", !.method = e.method,
                                          !.handler = e.handler])]
    /\ UNCHANGED <<store, audit, authVars>>

\* conditional_auth that runs JWTBearer whatever the method
ConditionalAuthStart_NoBypass(q0, header, now) ==
    LET q == [q0 EXCEPT !.header = header]
        bearer == JWTBearerCall(header, now)
    IN  IF ~bearer.ok
        THEN [Respond(q, bearer.status, bearer.detail, NoneDict) EXCEPT
                  !.gate = "Rejected",
                  !.decodes = IF bearer.detail = "Invalid token or expired token."
                              THEN 1 ELSE 0,
                  !.clock = IF bearer.detail = "Invalid token or expired token."
                            THEN now ELSE 0]
        ELSE [q EXCEPT !.pc = "current_user", !.token = bearer.token,
                       !.decodes = 1, !.now = now, !.clock = now]

\* conditional_auth up to the call of get_current_user, for a request with
\* this Authorization header at time now: OPTIONS returns None at once, any
\* other method runs JWTBearer
ConditionalAuthStart(q0, header, now) ==
    LET q == [q0 EXCEPT !.header = header]
        bearer == JWTBearerCall(header, now)
    IN  IF q.method = "OPTIONS"
        THEN [q EXCEPT !.pc = "handler", !.gate = "Bypassed", !.user = NoneDict]
        ELSE IF ~bearer.ok
        THEN [Respond(q, bearer.status, bearer.detail, NoneDict) EXCEPT
                  !.gate = "Rejected",
                  !.decodes = IF bearer.detail = "Invalid token or expired token."
                              THEN 1 ELSE 0,
                  !.clock = IF bearer.detail = "Invalid token or expired token."
                            THEN now ELSE 0]
        ELSE [q EXCEPT !.pc = "current_user", !.token = bearer.token,
                       !.decodes = 1, !.now = now, !.clock = now]

ConditionalAuth(r) ==
    /\ req[r].pc = "gate"
    /\ \E header \in Headers, now \in 1..MaxClock :
          req' = [req EXCEPT ![r] = View(ConditionalAuthStart(req[r], header, now))]
    /\ UNCHANGED <<store, audit, authVars>>

\* the gate lets the request through with this principal
Authenticated(q, payload) == [q EXCEPT !.pc = "handler", !.gate = "Authenticated", !.user = payload]

\* get_current_user that trusts the check of JWTBearer and reads the claims
\* without verifying the token again
GetCurrentUserStart_TrustFirst(q, now, repoOk, clientOk) ==
    LET payload == q.token.claims
        q1 == [q EXCEPT !.decodes = @ + 1, !.now = 0, !.clock = now]
    IN  IF ~TruthyDict(payload)
        THEN [Respond(q1, Unauthorized, "Invalid token", NoneDict) EXCEPT !.gate = "Rejected"]
        ELSE IF ~TruthyStr(Get(payload, "sub"))
        THEN Authenticated(q1, payload)
        ELSE IF ~repoOk
        THEN [Respond(q1, 500, "Internal server error", NoneDict) EXCEPT
                  !.gate = "Error", !.provFailed = TRUE]
        ELSE IF ~clientOk
        THEN [Authenticated(q1, payload) EXCEPT !.provFailed = TRUE]
        ELSE [q1 EXCEPT !.pc = "auth_check", !.user = payload]

\* get_current_user up to its first upstream call: the second decode, then,
\* for a truthy sub, the repository (line 87, outside the try) and the client
\* (line 90, inside it); repoOk and clientOk say whether get_supabase_client
\* returned; now is the time of the second decode
GetCurrentUserStart(q, now, repoOk, clientOk) ==
    LET payload == decode_jwt(q.token, now)
        q1 == [q EXCEPT !.decodes = @ + 1, !.now = 0, !.clock = now]
    IN  IF ~TruthyDict(payload)
        THEN [Respond(q1, Unauthorized, "Invalid token", NoneDict) EXCEPT !.gate = "Rejected"]
        ELSE IF ~TruthyStr(Get(payload, "sub"))
        THEN Authenticated(q1, payload)
        ELSE IF ~repoOk
        THEN [Respond(q1, 500, "Internal server error", NoneDict) EXCEPT
                  !.gate = "Error", !.provFailed = TRUE]
        ELSE IF ~clientOk
        THEN [Authenticated(q1, payload) EXCEPT !.provFailed = TRUE]
        ELSE [q1 EXCEPT !.pc = "auth_check", !.user = payload]

GetCurrentUser(r) ==
    /\ req[r].pc = "current_user"
    /\ \E now \in req[r].now..MaxClock, repoOk \in BOOLEAN, clientOk \in BOOLEAN :
          req' = [req EXCEPT ![r] = View(GetCurrentUserStart(req[r], now, repoOk, clientOk))]
    /\ UNCHANGED <<store, audit, authVars>>

\* the outcomes of an upstream read: data, no data, an error response
ReadOutcomes == {"ok", "nodata", "api_error"}

\* get_current_user, lines 91-113: check_user_exists answered; only an
\* existing user goes on to _ensure_user_settings
AuthCheckDone(q, outcome) ==
    LET q1 == [q EXCEPT !.nCheck = @ + 1]
    IN  IF outcome = "api_error"
        THEN [Authenticated(q1, q.user) EXCEPT !.provFailed = TRUE]
        ELSE IF outcome = "nodata" \/ ~CheckUserExistsRpc(Get(q.user, "sub"))
        THEN Authenticated(q1, q.user)
        ELSE [q1 EXCEPT !.pc = "ensure_check", !.ctx = "auth"]

AuthCheck(r) ==
    /\ req[r].pc = "auth_check"
    /\ \E outcome \in ReadOutcomes :
          req' = [req EXCEPT ![r] = View(AuthCheckDone(req[r], outcome))]
    /\ UNCHANGED <<store, audit, authVars>>

-----------------------------------------------------------------------------
(* The settings repository and the handlers of /users.                     *)

\* `phrase in str(e)`
InMessage(phrase, exc) == phrase \in exc.phrases

\* the except clauses of get_user_settings and update_user_settings (the
\* handlers): ValueError first, then Exception
HandlerError(q0, exc, verb) ==
    LET q == [q0 EXCEPT !.raised = exc]
    IN  IF exc.class = "ValueError"
        THEN IF InMessage("does not exist", exc)
             THEN Respond(q, 404, "User account issue", NoneDict)
             ELSE Respond(q, 400, verb, NoneDict)
        ELSE IF InMessage("violates foreign key constraint", exc)
                /\ InMessage("user_settings_id_fkey", exc)
             THEN Respond(q, Unauthorized, "User account mismatch. Please sign out and sign in again.", NoneDict)
             ELSE Respond(q, 500, verb, NoneDict)

\* the detail prefix of the handler a request runs
Verb(q) ==
    IF q.handler = "update_user_settings"
    THEN "Error updating user settings" ELSE "Error fetching user settings"

\* a repository method that logs the failure of _ensure_user_settings and goes
\* on to its table access
Raise_GoOn(q, exc) ==
    IF q.ctx = "auth"
    THEN [Authenticated(q, q.user) EXCEPT !.provFailed = TRUE]
    ELSE [q EXCEPT !.pc = "table", !.raised = exc]

\* an exception leaves the repository: the gate swallows it (auth.py lines
\* 106-113), the handler maps it to a response
Raise(q, exc) ==
    IF q.ctx = "auth"
    THEN [Authenticated(q, q.user) EXCEPT !.provFailed = TRUE]
    ELSE HandlerError(q, exc, Verb(q))

\* _ensure_user_settings that calls the RPC whatever check_user_exists
\* answered
EnsureCheckDone_NoCheck(q, outcome) ==
    LET q1 == [q EXCEPT !.nCheck = @ + 1]
    IN  IF outcome = "api_error" THEN Raise(q1, ApiError)
        ELSE [q1 EXCEPT !.pc = "ensure_rpc"]

\* _ensure_user_settings, lines 135-144: check_user_exists answered
EnsureCheckDone(q, outcome) ==
    LET q1 == [q EXCEPT !.nCheck = @ + 1]
    IN  IF outcome = "api_error" THEN Raise(q1, ApiError)
        ELSE IF outcome = "nodata" \/ ~CheckUserExistsRpc(Get(q.user, "sub"))
        THEN Raise(q1, UserMissingError)
        ELSE [q1 EXCEPT !.pc = "ensure_rpc"]

EnsureCheck(r) ==
    /\ req[r].pc = "ensure_check"
    /\ \E outcome \in ReadOutcomes :
          req' = [req EXCEPT ![r] = View(EnsureCheckDone(req[r], outcome))]
    /\ UNCHANGED <<store, audit, authVars>>

\* the outcomes of an upstream write: "lost_response" is a transaction that
\* committed while its answer never arrived, the two errors did not commit
WriteOutcomes == {"ok", "nodata", "api_error", "fk_violation", "lost_response"}

\* whether the upstream transaction of a write committed
Committed(outcome) == outcome \in {"ok", "nodata", "lost_response"}

\* the caller goes on after a successful ensure: the gate is done, the
\* repository method goes to its table access
AfterEnsure(q) ==
    IF q.ctx = "auth" THEN Authenticated(q, q.user) ELSE [q EXCEPT !.pc = "table"]

\* _ensure_user_settings that inserts the default row itself instead of
\* calling the RPC
EnsureRpcDone_BlindInsert(q, table, outcome) ==
    LET uid == Get(q.user, "sub")
        after == IF Committed(outcome) THEN Append(table, DefaultRow(uid)) ELSE table
        q1 == [q EXCEPT !.nEnsure = @ + 1]
    IN  IF outcome \in {"api_error", "fk_violation", "lost_response"}
        THEN [q |-> Raise(q1, UpstreamExc(outcome)), table |-> after]
        ELSE IF outcome = "nodata"
        THEN [q |-> Raise(q1, EnsureEmptyError), table |-> after]
        ELSE [q |-> AfterEnsure([q1 EXCEPT !.ensured =
                        Append(@, [row |-> RowsOf(after, uid)[1], modified |-> after # table])]),
              table |-> after]

\* _ensure_user_settings, lines 147-163: the ensure_user_settings RPC and
\* its answer; the request and the table after it
EnsureRpcDone(q, table, outcome) ==
    LET uid == Get(q.user, "sub")
        after == IF Committed(outcome) THEN EnsureUserSettingsRpc(table, uid) ELSE table
        q1 == [q EXCEPT !.nEnsure = @ + 1]
    IN  IF outcome \in {"api_error", "fk_violation", "lost_response"}
        THEN [q |-> Raise(q1, UpstreamExc(outcome)), table |-> after]
        ELSE IF outcome = "nodata"
        THEN [q |-> Raise(q1, EnsureEmptyError), table |-> after]
        ELSE [q |-> AfterEnsure([q1 EXCEPT !.ensured =
                        Append(@, [row |-> RowsOf(after, uid)[1], modified |-> after # table])]),
              table |-> after]

EnsureRpc(r) ==
    /\ req[r].pc = "ensure_rpc"
    /\ \E outcome \in WriteOutcomes :
          LET done == EnsureRpcDone(req[r], store, outcome)
          IN  /\ req' = [req EXCEPT ![r] = View(done.q)]
              /\ store' = done.table
    /\ UNCHANGED <<audit, authVars>>

\* whether a handler has a principal: `not user or "sub" not in user` fails
HasSub(user) == TruthyDict(user) /\ "sub" \in DOMAIN user

\* get_current_user_info: the projection of the claims
UserInfo(user) == [id |-> Get(user, "sub"), email |-> Get(user, "email")]

\* a handler up to its first upstream call; repoOk says whether
\* UserSettingsRepository(auth_token) could be constructed
HandlerStart(q, repoOk) ==
    LET q1 == [q EXCEPT !.handlerRan = TRUE, !.ctx = "handler"]
    IN  IF q.method = "OPTIONS" /\ q.handler # "update_user_settings"
        THEN Respond(q1, 200, "", EmptyDict)
        ELSE IF ~HasSub(q.user)
        THEN Respond(q1, Unauthorized, "Unauthorized", NoneDict)
        ELSE IF q.handler = "get_current_user_info"
        THEN Respond(q1, 200, "", UserInfo(q.user))
        ELSE IF ~repoOk
        THEN HandlerError(q1, InitError, Verb(q))
        ELSE [q1 EXCEPT !.pc = "ensure_check"]

Handler(r) ==
    /\ req[r].pc = "handler"
    /\ \E repoOk \in BOOLEAN :
          req' = [req EXCEPT ![r] = View(HandlerStart(req[r], repoOk))]
    /\ UNCHANGED <<store, audit, authVars>>

\* UserSettingsBase parsed from a body: a field the body lacks takes the
\* default of the model
UserSettingsBase(body) ==
    [ theme |-> IF body.theme = Absent THEN "light" ELSE body.theme,
      language |-> IF body.language = Absent THEN "en" ELSE body.language,
      timezone |-> IF body.timezone = Absent THEN "UTC" ELSE body.timezone ]

\* settings.model_dump(): every field of the model
model_dump(settings) ==
    [theme |-> settings.theme, language |-> settings.language, timezone |-> settings.timezone]

\* table.update(values).eq("id", uid): the table after it
TableUpdate(table, values, uid) ==
    [i \in DOMAIN table |->
        IF table[i].id = uid
        THEN [table[i] EXCEPT !.theme = values.theme, !.language = values.language,
                              !.timezone = values.timezone]
        ELSE table[i]]

\* the answer of a table access with these rows
TableAnswer(q, rows) ==
    IF rows = << >> THEN HandlerError(q, SettingsNotFoundError, Verb(q))
    ELSE Respond(q, 200, "", rows[1])

\* get_user_settings (repository), lines 39-57: the select and its answer
SelectDone(q, table, outcome) ==
    LET q1 == [q EXCEPT !.nTable = @ + 1]
    IN  IF outcome = "api_error" THEN HandlerError(q1, ApiError, Verb(q))
        ELSE IF outcome = "nodata" THEN TableAnswer(q1, << >>)
        ELSE TableAnswer(q1, RowsOf(table, Get(q.user, "sub")))

\* update_user_settings (repository), lines 88-111: the update with the
\* settings parsed from this body, and its answer; the request and the table
\* after it
UpdateDone(q, table, body, outcome) ==
    LET uid == Get(q.user, "sub")
        after == IF Committed(outcome)
                 THEN TableUpdate(table, model_dump(UserSettingsBase(body)), uid)
                 ELSE table
        q1 == [q EXCEPT !.nTable = @ + 1, !.body = body,
                        !.before = IF RowsOf(table, uid) = << >> THEN NoneDict
                                   ELSE RowsOf(table, uid)[1]]
    IN  IF outcome \in {"api_error", "lost_response"}
        THEN [q |-> HandlerError(q1, ApiError, Verb(q)), table |-> after]
        ELSE [q |-> TableAnswer(q1, RowsOf(after, uid)), table |-> after]

TableSelect(r) ==
    /\ req[r].pc = "table"
    /\ req[r].handler = "get_user_settings"
    /\ \E outcome \in ReadOutcomes :
          req' = [req EXCEPT ![r] = View(SelectDone(req[r], store, outcome))]
    /\ UNCHANGED <<store, audit, authVars>>

TableUpdateStep(r) ==
    /\ req[r].pc = "table"
    /\ req[r].handler = "update_user_settings"
    /\ \E body \in Bodies, outcome \in {"ok", "api_error", "lost_response"} :
          LET done == UpdateDone(req[r], store, body, outcome)
          IN  /\ req' = [req EXCEPT ![r] = View(done.q)]
              /\ store' = done.table
    /\ UNCHANGED <<audit, authVars>>

-----------------------------------------------------------------------------
(* The AuthService gateway: one upstream HTTP call per operation.          *)

\* what the upstream call of a gateway operation comes to: an HTTP response
\* with a status and a body, or an exception of httpx
Reply(status, json) == [kind |-> "response", status |-> status, json |-> json]

\* a body that is not JSON (response.json() raises ValueError)
NotJson == [notjson |-> TRUE]

\* a response without content
EmptyBody == [empty |-> TRUE]

\* a JSON body that is no object (a list, a string): error_data.get raises
\* AttributeError
NotObject == [notobject |-> TRUE]

Timeout == [kind |-> "timeout", status |-> 0, json |-> NotJson]

NetworkError == [kind |-> "network_error", status |-> 0, json |-> NotJson]

\* dict.get(key, default)
GetOr(d, k, default) == IF k \in DOMAIN d THEN d[k] ELSE default

\* the result of a raising try block, with a code for the frontend
ServiceUnavailable_Coded ==
    [ success |-> FALSE, error |-> "Service unavailable. Please try again later.",
      error_code |-> "connection_error" ]

\* the result every operation but sign_up gives when its try block raises
ServiceUnavailable == [success |-> FALSE, error |-> "Service unavailable. Please try again later."]

\* the non-200 branch that answers without a message
ErrorResult_NoMessage(reply, default) == [success |-> FALSE]

\* the non-200 branch shared by the operations: the upstream message, or the
\* default of the operation; a body that is empty or not JSON raises into the
\* except
ErrorResult(reply, default) ==
    IF reply.json \in {NotJson, EmptyBody, NotObject} THEN ServiceUnavailable
    ELSE [success |-> FALSE, error |-> GetOr(reply.json, "message", default)]

\* the sessions the upstream issues
Sessions ==
    { [access_token |-> "at1", refresh_token |-> "rt1", expires_at |-> 1],
      [access_token |-> "at2", refresh_token |-> "rt2", expires_at |-> 2] }

\* AuthService.sign_in
sign_in(reply) ==
    IF reply.kind # "response" THEN ServiceUnavailable
    ELSE IF reply.status = 200
    THEN IF reply.json \in {NotJson, EmptyBody} THEN ServiceUnavailable
         ELSE [ success |-> TRUE,
                user |-> [ id |-> GetOr(GetOr(reply.json, "user", EmptyDict), "id", NoneStr),
                           email |-> GetOr(GetOr(reply.json, "user", EmptyDict), "email", NoneStr) ],
                session |-> [ access_token |-> GetOr(reply.json, "access_token", NoneStr),
                              refresh_token |-> GetOr(reply.json, "refresh_token", NoneStr),
                              expires_at |-> GetOr(reply.json, "expires_at", 0) ] ]
    ELSE ErrorResult(reply, "Invalid email or password")

\* AuthService.sign_out
sign_out(reply) ==
    IF reply.kind # "response" THEN ServiceUnavailable
    ELSE IF reply.status = 204
    THEN [success |-> TRUE, message |-> "Successfully signed out"]
    ELSE IF reply.json = EmptyBody
    THEN [success |-> FALSE, error |-> "Unknown error during sign out"]
    ELSE ErrorResult(reply, "Error during sign out")

\* AuthService.change_password
change_password(reply) ==
    IF reply.kind # "response" THEN ServiceUnavailable
    ELSE IF reply.status = 200
    THEN [success |-> TRUE, message |-> "Password changed successfully"]
    ELSE ErrorResult(reply, "Error changing password")

\* AuthService.reset_password_request
reset_password_request(reply) ==
    IF reply.kind # "response" THEN ServiceUnavailable
    ELSE IF reply.status = 200
    THEN [success |-> TRUE, message |-> "Password reset link sent to your email"]
    ELSE ErrorResult(reply, "Error sending password reset link")

\* AuthService.verify_email
verify_email(reply) ==
    IF reply.kind # "response" THEN ServiceUnavailable
    ELSE IF reply.status = 200
    THEN [success |-> TRUE, message |-> "Email verified successfully"]
    ELSE ErrorResult(reply, "Error verifying email")

\* AuthService.refresh_token
refresh_token(reply) ==
    IF reply.kind # "response" THEN ServiceUnavailable
    ELSE IF reply.status = 200
    THEN IF reply.json \in {NotJson, EmptyBody} THEN ServiceUnavailable
         ELSE [ success |-> TRUE,
                session |-> [ access_token |-> GetOr(reply.json, "access_token", NoneStr),
                              refresh_token |-> GetOr(reply.json, "refresh_token", NoneStr),
                              expires_at |-> GetOr(reply.json, "expires_at", 0) ] ]
    ELSE ErrorResult(reply, "Error refreshing token")

\* verify_token that hands on the session of the upstream body
verify_token_WithSession(reply) ==
    IF reply.kind # "response" THEN ServiceUnavailable
    ELSE IF reply.status = 200
    THEN IF reply.json \in {NotJson, EmptyBody} THEN ServiceUnavailable
         ELSE IF "session" \in DOMAIN reply.json
         THEN [success |-> TRUE, user |-> reply.json, session |-> reply.json.session]
         ELSE [success |-> TRUE, user |-> reply.json]
    ELSE ErrorResult(reply, "Invalid token")

\* AuthService.verify_token
verify_token(reply) ==
    IF reply.kind # "response" THEN ServiceUnavailable
    ELSE IF reply.status = 200
    THEN IF reply.json \in {NotJson, EmptyBody} THEN ServiceUnavailable
         ELSE [success |-> TRUE, user |-> reply.json]
    ELSE ErrorResult(reply, "Invalid token")

\* AuthService.decode_jwt that catches nothing
AuthService_decode_jwt_NoCatch(token, now) ==
    IF ~token.wellformed THEN [raised |-> "JWTError"]
    ELSE IF token.key # JwtSecret THEN [raised |-> "JWTError"]
    ELSE IF "exp" \in DOMAIN token.claims /\ token.claims.exp < now
    THEN [raised |-> "ExpiredSignatureError"]
    ELSE token.claims

\* AuthService.decode_jwt: jwt.decode returns the claims or raises (JWTError
\* for what is no JWT and for a bad signature, ExpiredSignatureError for exp
\* in the past); `except jwt.JWTError` catches JWTError and its subclasses
\* and returns None, anything else propagates
AuthService_decode_jwt(token, now) ==
    LET decoded == IF ~token.wellformed THEN [raised |-> "JWTError"]
                   ELSE IF token.key # JwtSecret THEN [raised |-> "JWTError"]
                   ELSE IF "exp" \in DOMAIN token.claims /\ token.claims.exp < now
                   THEN [raised |-> "ExpiredSignatureError"]
                   ELSE token.claims
    IN  IF "raised" \notin DOMAIN decoded THEN decoded
        ELSE IF decoded.raised \in {"JWTError", "ExpiredSignatureError", "JWTClaimsError"}
        THEN NoneDict
        ELSE decoded

\* the upstream messages of the model that contain "database error" in any
\* case
DatabaseErrorMessages == {"Database error saving new user"}

\* the table of AuthService._get_user_friendly_error_message
error_messages ==
    [ user_already_registered |-> "This email is already registered. Please try signing in or use a different email.",
      invalid_email |-> "The email address format is invalid.",
      weak_password |-> "The password does not meet security requirements.",
      email_taken |-> "This email is already in use. Please try a different one.",
      network_error |-> "Network connection error. Please check your internet connection and try again.",
      unexpected_failure |-> "Our database encountered an error while creating your account.",
      database_error |-> "Database error encountered. This could be due to a temporary issue or a configuration problem. Please try again later.",
      http500 |-> "The server encountered an internal error. Please try again later or contact support if the problem persists." ]

\* the key of error_messages for an upstream code (the key "500" is http500)
MessageKey(code) == IF code = "500" THEN "http500" ELSE code

\* _get_user_friendly_error_message that looks at the code alone
get_user_friendly_error_message_TableOnly(error_code, original_message) ==
    GetOr(error_messages, MessageKey(error_code), original_message)

\* AuthService._get_user_friendly_error_message
get_user_friendly_error_message(error_code, original_message) ==
    IF original_message \in DatabaseErrorMessages
    THEN "Database error encountered. This could be due to a temporary issue or a unique constraint violation. Please try again with a different email address."
    ELSE GetOr(error_messages, MessageKey(error_code), original_message)

\* Python `a or b` on strings
OrElse(a, b) == IF TruthyStr(a) THEN a ELSE b

\* AuthService.sign_up
sign_up(reply) ==
    IF reply.kind = "timeout"
    THEN [ success |-> FALSE, error_code |-> "timeout",
           error |-> "The authentication service is taking too long to respond. Please try again later." ]
    ELSE IF reply.kind = "network_error"
    THEN [ success |-> FALSE, error_code |-> "connection_error",
           error |-> "Failed to connect to the authentication service. Please check your network connection and try again." ]
    ELSE IF reply.status = 200
    THEN [ success |-> TRUE,
           message |-> "Account created successfully. Please check your email to confirm your account." ]
    ELSE IF reply.json \in {NotJson, EmptyBody}
    THEN [ success |-> FALSE, error_code |-> "parse_error",
           error |-> "Unexpected response from authentication service" ]
    ELSE IF reply.json = NotObject
    THEN [ success |-> FALSE, error_code |-> "unexpected_error",
           error |-> "An unexpected error occurred. Please try again later." ]
    ELSE LET error_code == GetOr(reply.json, "code", "unknown_code")
             error_msg == GetOr(reply.json, "message", "Unknown error during signup")
             supabase_error_code == GetOr(reply.json, "error_code", NoneStr)
             supabase_msg == GetOr(reply.json, "msg", NoneStr)
             detailed_error == OrElse(supabase_msg, error_msg)
         IN  [ success |-> FALSE,
               error |-> get_user_friendly_error_message(
                             OrElse(supabase_error_code, error_code), detailed_error),
               error_code |-> OrElse(supabase_error_code, error_code),
               details |-> [ message |-> detailed_error,
                             error_id |-> GetOr(reply.json, "error_id", NoneStr) ] ]

-----------------------------------------------------------------------------
(* The request models: password validation.                                *)

\* the least length validate_password accepts
MinPasswordLength == 8

\* the characters of the model's passwords: an uppercase letter, a lowercase
\* letter, a digit and a symbol of the fixed set
PasswordChars == {"P", "a", "1", "!"}

\* a quote: a character that is no letter, no digit and no symbol of the
\* fixed set
Quote == "'"

\* str.isupper, str.islower, str.isdigit on the characters of the model
isupper(c) == c \in {"P"}

islower(c) == c \in {"a"}

isdigit(c) == c \in {"1"}

\* the characters of "!@#$%^&*()-_=+[]{}|;:,.<>?/~"
SpecialCharacters ==
    { "!", "@", "#", "$", "%", "^", "&", "*", "(", ")", "-", "_", "=", "+",
      "[", "]", "{", "}", "|", ";", ":", ",", ".", "<", ">", "?", "/", "~" }

\* the value a validator returns for a password it accepts
Valid == "valid"

\* SignUpRequest.validate_password: the message of the ValueError, or Valid
SignUpRequest_validate_password(v) ==
    IF Len(v) < MinPasswordLength THEN "Password must be at least 8 characters long"
    ELSE IF ~\E i \in DOMAIN v : isupper(v[i])
    THEN "Password must contain at least one uppercase letter"
    ELSE IF ~\E i \in DOMAIN v : islower(v[i])
    THEN "Password must contain at least one lowercase letter"
    ELSE IF ~\E i \in DOMAIN v : isdigit(v[i])
    THEN "Password must contain at least one number"
    ELSE IF ~\E i \in DOMAIN v : v[i] \in SpecialCharacters
    THEN "Password must contain at least one special character"
    ELSE Valid

\* ChangePasswordRequest.validate_password without the test for a symbol
ChangePasswordRequest_validate_password_NoSymbol(v) ==
    IF Len(v) < MinPasswordLength THEN "Password must be at least 8 characters long"
    ELSE IF ~\E i \in DOMAIN v : isupper(v[i])
    THEN "Password must contain at least one uppercase letter"
    ELSE IF ~\E i \in DOMAIN v : islower(v[i])
    THEN "Password must contain at least one lowercase letter"
    ELSE IF ~\E i \in DOMAIN v : isdigit(v[i])
    THEN "Password must contain at least one number"
    ELSE Valid

\* ChangePasswordRequest.validate_password: the message of the ValueError, or
\* Valid
ChangePasswordRequest_validate_password(v) ==
    IF Len(v) < MinPasswordLength THEN "Password must be at least 8 characters long"
    ELSE IF ~\E i \in DOMAIN v : isupper(v[i])
    THEN "Password must contain at least one uppercase letter"
    ELSE IF ~\E i \in DOMAIN v : islower(v[i])
    THEN "Password must contain at least one lowercase letter"
    ELSE IF ~\E i \in DOMAIN v : isdigit(v[i])
    THEN "Password must contain at least one number"
    ELSE IF ~\E i \in DOMAIN v : v[i] \in SpecialCharacters
    THEN "Password must contain at least one special character"
    ELSE Valid

-----------------------------------------------------------------------------
(* The /auth endpoints and the session cookies.                            *)

\* "development"
Development == <<"d", "e", "v", "e", "l", "o", "p", "m", "e", "n", "t">>

\* the lowercase letter of an uppercase letter of the model
LowerOf ==
    [ D |-> "d", E |-> "e", V |-> "v", L |-> "l", O |-> "o", P |-> "p",
      M |-> "m", N |-> "n", T |-> "t", R |-> "r", U |-> "u", C |-> "c",
      I |-> "i", S |-> "s", A |-> "a", G |-> "g" ]

\* str.lower
Lower(str) == [i \in DOMAIN str |-> IF str[i] \in DOMAIN LowerOf THEN LowerOf[str[i]] ELSE str[i]]

\* the values of settings.ENVIRONMENT of the model
Environments ==
    { Development,
      <<"D", "e", "v", "e", "l", "o", "p", "m", "e", "n", "t">>,
      <<"D", "E", "V", "E", "L", "O", "P", "M", "E", "N", "T">>,
      <<"d", "e", "v">>,
      <<"p", "r", "o", "d", "u", "c", "t", "i", "o", "n">>,
      <<"P", "r", "o", "d", "u", "c", "t", "i", "o", "n">>,
      <<"s", "t", "a", "g", "i", "n", "g">>,
      << >> }

\* SECURE_COOKIES compared without lower()
SECURE_COOKIES_CaseSensitive == env # Development

\* SECURE_COOKIES = settings.ENVIRONMENT.lower() != "development"
SECURE_COOKIES == Lower(env) # Development

ACCESS_TOKEN_EXPIRES_IN_SECONDS == 15 * 60

REFRESH_TOKEN_EXPIRES_IN_SECONDS == 7 * 24 * 60 * 60

\* response.set_cookie(key, value, httponly=True, secure=SECURE_COOKIES,
\* max_age, samesite="lax")
SetCookie(key, value, max_age) ==
    [ op |-> "set", key |-> key, value |-> value, httponly |-> TRUE,
      secure |-> SECURE_COOKIES, max_age |-> max_age, samesite |-> "lax" ]

\* response.delete_cookie(key, secure=SECURE_COOKIES, httponly=True,
\* samesite="lax"): the cookie with an empty value that expires at once
DeleteCookie(key) ==
    [ op |-> "delete", key |-> key, value |-> "", httponly |-> TRUE,
      secure |-> SECURE_COOKIES, max_age |-> 0, samesite |-> "lax" ]

\* the two cookies of a session
SessionCookies(session) ==
    { SetCookie("access_token", session.access_token, ACCESS_TOKEN_EXPIRES_IN_SECONDS),
      SetCookie("refresh_token", session.refresh_token, REFRESH_TOKEN_EXPIRES_IN_SECONDS) }

\* a response: status, JSON content, Set-Cookie headers
Response(status, content, cookies) == [status |-> status, content |-> content, cookies |-> cookies]

\* the gateway was not called
NoResult == [called |-> FALSE]

\* an upstream call of the gateway
Call(op, arg) == [op |-> op, arg |-> arg]

\* no upstream call was made, so nothing was answered
NoReply == [kind |-> "none", status |-> 0, json |-> NotJson]

\* an exchange: the endpoint, what the request carried, the upstream calls
\* made, what the upstream answered, the gateway result, the response
Exchange(endpoint, request, calls, reply, result, response) ==
    [ endpoint |-> endpoint, request |-> request, calls |-> calls,
      reply |-> reply, result |-> result, response |-> response ]

NoExchange == Exchange("none", NoneStr, << >>, NoReply, NoResult, Response(0, EmptyDict, {}))

\* main.validation_exception_handler: the answer to a body that fails validation
ValidationError(msg) == Response(422, [detail |-> msg], {})

\* the handler sign_in that clears the access token when the sign-in fails
SignInHandler_CookieOnFailure(result) ==
    IF result.success
    THEN Response(200, result, SessionCookies(result.session))
    ELSE Response(Unauthorized, result, {DeleteCookie("access_token")})

\* the handler sign_in, given the gateway result
SignInHandler(result) ==
    IF result.success
    THEN Response(200, result, SessionCookies(result.session))
    ELSE Response(Unauthorized, result, {})

\* the handler sign_out that invalidates whatever cookie value it reads
SignOutCalls_Always(cookie) == <<Call("logout", cookie)>>

\* the handler sign_out: the upstream calls for a refresh_token cookie
\* (NoneStr when the request has none)
SignOutCalls(cookie) == IF TruthyStr(cookie) THEN <<Call("logout", cookie)>> ELSE << >>

\* the handler sign_out: its response, whatever the gateway said
SignOutHandler ==
    Response(200, [success |-> TRUE, message |-> "Successfully signed out"],
             {DeleteCookie("access_token"), DeleteCookie("refresh_token")})

\* the handler refresh_token that clears the session when the refresh fails
RefreshHandler_ClearsOnFailure(result) ==
    IF result.success
    THEN Response(200, result, SessionCookies(result.session))
    ELSE Response(Unauthorized, result,
                  {DeleteCookie("access_token"), DeleteCookie("refresh_token")})

\* the handler refresh_token that renews the access_token cookie alone
RefreshHandler_AccessOnly(result) ==
    IF result.success
    THEN Response(200, result,
                  {SetCookie("access_token", result.session.access_token,
                             ACCESS_TOKEN_EXPIRES_IN_SECONDS)})
    ELSE Response(Unauthorized, result, {})

\* the handler refresh_token, given the gateway result
RefreshHandler(result) ==
    IF result.success
    THEN Response(200, result, SessionCookies(result.session))
    ELSE Response(Unauthorized, result, {})

\* the handler verify_token, given the gateway result
VerifyTokenHandler(result) ==
    IF result.success /\ TruthyDict(GetOr(result, "user", NoneDict))
    THEN Response(200, [success |-> TRUE, user |-> result.user],
                  IF "session" \in DOMAIN result THEN SessionCookies(result.session) ELSE {})
    ELSE Response(Unauthorized,
                  [success |-> FALSE, error |-> GetOr(result, "error", "Invalid token")], {})

\* the handler sign_up that answers a failure with the gateway result as it is
SignUpHandler_PassThrough(result) ==
    IF ~result.success THEN Response(400, result, {}) ELSE Response(200, result, {})

\* the handler sign_up, given the gateway result
SignUpHandler(result) ==
    IF ~result.success
    THEN Response(400, [ success |-> FALSE,
                         error |-> GetOr(result, "error", "Unknown error"),
                         error_code |-> GetOr(result, "error_code", "unknown_error"),
                         details |-> GetOr(result, "details", EmptyDict) ], {})
    ELSE Response(200, result, {})

\* the handler change_password that answers a failure the way HTTPException
\* does
ChangePasswordHandler_DetailOnly(result) ==
    IF ~result.success
    THEN Response(400, [detail |-> result.error], {})
    ELSE Response(200, result, {})

\* the handler change_password, given the gateway result
ChangePasswordHandler(result) ==
    IF ~result.success THEN Response(400, result, {}) ELSE Response(200, result, {})

\* the handler reset_password, given the gateway result
ResetPasswordHandler(result) ==
    IF ~result.success THEN Response(400, result, {}) ELSE Response(200, result, {})

\* the handler verify_email that reports success whatever the gateway said
VerifyEmailHandler_AlwaysSuccess(result) ==
    Response(302, NoneDict, {}) @@
    [ location |->
        [ url |-> "http://localhost:3000/auth/email-verified",
          query |-> [success |-> "true"] ] ]

\* the handler verify_email, given the gateway result: a RedirectResponse,
\* which has no JSON body, to the page of the first CORS origin; the query
\* of its Location is kept as its parameters
VerifyEmailHandler(result) ==
    Response(302, NoneDict, {}) @@
    [ location |->
        [ url |-> "http://localhost:3000/auth/email-verified",
          query |-> IF result.success
                    THEN [success |-> "true"]
                    ELSE [ success |-> "false",
                           error |-> GetOr(result, "error", "Failed to verify email") ] ] ]

\* the client's cookies after a response
Store(cookies, held) ==
    [ key \in DOMAIN held |->
        IF \E c \in cookies : c.key = key
        THEN LET c == CHOOSE c \in cookies : c.key = key
             IN  IF c.op = "set" THEN c.value ELSE NoneStr
        ELSE held[key] ]

\* a client without cookies
EmptyJar == [access_token |-> NoneStr, refresh_token |-> NoneStr]

-----------------------------------------------------------------------------
(* Requests to the /auth endpoints: each action is one whole exchange.     *)

\* what the upstream answers to a sign-in or a refresh
SessionReplies ==
    { Reply(200, [ access_token |-> s.access_token, refresh_token |-> s.refresh_token,
                   expires_at |-> s.expires_at,
                   user |-> [id |-> "u1", email |-> "u1@example.com"] ]) : s \in Sessions }
    \cup { Reply(400, [message |-> "Invalid login credentials"]), Reply(400, EmptyDict),
           Reply(200, NotJson), Reply(500, NotJson), Reply(502, NotObject), Timeout,
           NetworkError }

\* what the upstream answers to a logout
SignOutReplies ==
    { Reply(204, EmptyBody), Reply(401, [message |-> "Invalid refresh token"]),
      Reply(500, EmptyBody), Reply(502, NotJson), Reply(502, NotObject), Timeout,
      NetworkError }

\* what the upstream answers to a user lookup by token
UserReplies ==
    { Reply(200, [id |-> "u1", email |-> "u1@example.com"]), Reply(200, EmptyDict),
      Reply(200, [id |-> "u1", session |-> [access_token |-> "at1", refresh_token |-> "rt1"]]),
      Reply(401, [message |-> "invalid JWT"]), Reply(500, NotJson), Reply(502, NotObject),
      Timeout, NetworkError }

\* what the upstream answers to a signup
SignUpReplies ==
    { Reply(200, [id |-> "u1"]),
      Reply(422, [code |-> "user_already_registered", message |-> "User already registered"]),
      Reply(500, [ code |-> "500", error_code |-> "unexpected_failure",
                   msg |-> "Database error saving new user" ]),
      Reply(422, [error_code |-> "weak_password", msg |-> "Password should be at least 6 characters"]),
      Reply(429, [code |-> "over_email_send_rate_limit", message |-> "Email rate limit exceeded"]),
      Reply(400, [message |-> "Signups not allowed for this instance"]),
      Reply(500, NotJson), Reply(502, NotObject), Timeout, NetworkError }

\* what the upstream answers to a password change, a recovery request or an
\* email verification
ChangePasswordReplies ==
    { Reply(200, [id |-> "u1"]), Reply(401, [message |-> "invalid JWT"]), Reply(400, EmptyDict),
      Reply(500, NotJson), Reply(502, NotObject), Timeout, NetworkError }

\* the refresh_token cookie of a request: none, one with an empty value, a
\* token
RequestCookies == {NoneStr, "", "rt1", "rt2", "stale"}

\* the OAuth and verification tokens of the requests
BodyTokens == {"tok1", "tok2"}

\* the exchange of POST /auth/sign-in
SignInExchange(reply) ==
    LET result == sign_in(reply)
    IN  Exchange("sign_in", NoneStr, <<Call("token", "password")>>, reply, result,
                 SignInHandler(result))

\* the exchange of POST /auth/sign-out with the cookie refresh_token
SignOutExchange(cookie, reply) ==
    LET calls == SignOutCalls(cookie)
    IN  IF calls # << >>
        THEN Exchange("sign_out", cookie, calls, reply, sign_out(reply), SignOutHandler)
        ELSE Exchange("sign_out", cookie, calls, NoReply, NoResult, SignOutHandler)

\* the exchange of POST /auth/refresh that forwards whatever it reads
RefreshExchange_NoGuard(cookie, reply) ==
    LET result == refresh_token(reply)
    IN  Exchange("refresh", cookie, <<Call("token", cookie)>>, reply, result,
                 RefreshHandler(result))

\* the exchange of POST /auth/refresh that asks the upstream again after a
\* failure
RefreshExchange_Retry(cookie, reply) ==
    IF ~TruthyStr(cookie)
    THEN Exchange("refresh", cookie, << >>, NoReply, NoResult,
                  Response(Unauthorized, [success |-> FALSE, error |-> "Refresh token not found"], {}))
    ELSE LET result == refresh_token(reply)
         IN  Exchange("refresh", cookie,
                      IF result.success THEN <<Call("token", cookie)>>
                      ELSE <<Call("token", cookie), Call("token", cookie)>>,
                      reply, result, RefreshHandler(result))

\* the exchange of POST /auth/refresh with the cookie refresh_token
RefreshExchange(cookie, reply) ==
    IF ~TruthyStr(cookie)
    THEN Exchange("refresh", cookie, << >>, NoReply, NoResult,
                  Response(Unauthorized, [success |-> FALSE, error |-> "Refresh token not found"], {}))
    ELSE LET result == refresh_token(reply)
         IN  Exchange("refresh", cookie, <<Call("token", cookie)>>, reply, result,
                      RefreshHandler(result))

\* the exchange of POST /auth/verify-token
VerifyTokenExchange(token, reply) ==
    LET result == verify_token(reply)
    IN  Exchange("verify_token", token, <<Call("user", token)>>, reply, result,
                 VerifyTokenHandler(result))

\* the exchange of POST /auth/sign-up: the body is validated, then the handler
\* runs
SignUpExchange(password, reply) ==
    LET checked == SignUpRequest_validate_password(password)
        result == sign_up(reply)
    IN  IF checked # Valid
        THEN Exchange("sign_up", password, << >>, NoReply, NoResult, ValidationError(checked))
        ELSE Exchange("sign_up", password, <<Call("signup", password)>>, reply, result,
                      SignUpHandler(result))

\* the exchange of POST /auth/change-password: the body is validated, then the
\* handler runs
ChangePasswordExchange(password, reply) ==
    LET checked == ChangePasswordRequest_validate_password(password)
        result == change_password(reply)
    IN  IF checked # Valid
        THEN Exchange("change_password", password, << >>, NoReply, NoResult,
                      ValidationError(checked))
        ELSE Exchange("change_password", password, <<Call("recover", password)>>, reply, result,
                      ChangePasswordHandler(result))

\* the exchange happens and the client keeps the cookies of the response; the
\* endpoint that took the step says what it leaves alone
Exchanged(e) ==
    /\ exch' = e
    /\ jar' = Store(e.response.cookies, jar)

PostSignIn ==
    /\ \E reply \in SessionReplies : Exchanged(SignInExchange(reply))
    /\ UNCHANGED <<env, usersVars>>

PostSignOut ==
    /\ \E cookie \in RequestCookies, reply \in SignOutReplies :
           Exchanged(SignOutExchange(cookie, reply))
    /\ UNCHANGED <<env, usersVars>>

PostRefresh ==
    /\ \E cookie \in RequestCookies, reply \in SessionReplies :
           Exchanged(RefreshExchange(cookie, reply))
    /\ UNCHANGED <<env, usersVars>>

PostVerifyToken ==
    /\ \E token \in BodyTokens, reply \in UserReplies :
           Exchanged(VerifyTokenExchange(token, reply))
    /\ UNCHANGED <<env, usersVars>>

PostResetPassword ==
    /\ \E reply \in ChangePasswordReplies :
           LET result == reset_password_request(reply)
           IN  Exchanged(Exchange("reset_password", NoneStr, <<Call("recover", "email")>>, reply,
                                  result, ResetPasswordHandler(result)))
    /\ UNCHANGED <<env, usersVars>>

GetVerifyEmail ==
    /\ \E token \in BodyTokens, reply \in ChangePasswordReplies :
           LET result == verify_email(reply)
           IN  Exchanged(Exchange("verify_email", token, <<Call("verify", token)>>, reply,
                                  result, VerifyEmailHandler(result)))
    /\ UNCHANGED <<env, usersVars>>

\* the gateway decodes a token: no endpoint, no upstream call, no response
DecodeJwt ==
    /\ \E token \in Tokens, now \in 0..MaxClock :
           Exchanged(Exchange("decode_jwt", token, << >>, NoReply,
                              AuthService_decode_jwt(token, now), Response(0, EmptyDict, {})))
    /\ UNCHANGED <<env, usersVars>>

\* the passwords of the requests that are not about the password policy
SomePasswords ==
    { <<"P", "a", "1", "!", "a", "a", "a", "a">>, <<"P", "a", "1", "!">>,
      <<"a", "a", "a", "a", "a", "a", "a", "a">> }

PostSignUp ==
    /\ \E password \in SomePasswords, reply \in SignUpReplies :
           Exchanged(SignUpExchange(password, reply))
    /\ UNCHANGED <<env, usersVars>>

PostChangePassword ==
    /\ \E password \in SomePasswords, reply \in ChangePasswordReplies :
           Exchanged(ChangePasswordExchange(password, reply))
    /\ UNCHANGED <<env, usersVars>>

\* the response is sent and the slot is free
Close(r) ==
    /\ req[r].pc = "done"
    /\ req' = [req EXCEPT ![r] = IdleReq]
    /\ UNCHANGED <<store, audit, authVars>>

InitUsers ==
    /\ store = << >>
    /\ req = [r \in Requests |-> IdleReq]

\* one step of the request in slot r
Step(r) ==
    \/ ConditionalAuth(r)
    \/ GetCurrentUser(r)
    \/ AuthCheck(r)
    \/ EnsureCheck(r)
    \/ EnsureRpc(r)
    \/ Handler(r)
    \/ TableSelect(r)
    \/ TableUpdateStep(r)
    \/ Close(r)

\* no /auth exchange takes place
InitAuthIdle == env = Development /\ jar = EmptyJar /\ exch = NoExchange

Init == InitUsers /\ InitAuthIdle /\ audit = FALSE

Next ==
    \/ \E r \in Requests : Receive(r)
    \/ \E r \in Requests : Step(r)

\* requests arrive at any time and their upstream calls interleave
Spec == Init /\ [][Next]_vars

\* no other request is being handled
Quiet(r) == \A o \in Requests \ {r} : req[o].pc = "idle"

InitSeq == InitUsers /\ InitAuthIdle /\ audit = TRUE

NextSeq ==
    \/ \E r \in Requests : Quiet(r) /\ Receive(r)
    \/ \E r \in Requests : Step(r)

\* a request arrives only when the one before it is answered
SpecSeq == InitSeq /\ [][NextSeq]_vars

\* AuthService.oauth_initiate: the authorize URL of the provider, built
\* without calling the upstream
oauth_initiate(provider) ==
    [url |-> "{SUPABASE_URL}/auth/v1/authorize", query |-> [provider |-> provider]]

\* GET /auth/oauth/{provider}: a redirect to the authorize URL
GetOAuthLogin ==
    /\ \E provider \in {"google", "github"} :
           Exchanged(Exchange("oauth", provider, << >>, NoReply, NoResult,
                              Response(302, NoneDict, {}) @@ [location |-> oauth_initiate(provider)]))
    /\ UNCHANGED <<env, usersVars>>

\* what the upstream answers to the probe of health_check: GET /rest/v1/
ProbeReplies ==
    { Reply(200, EmptyDict), Reply(200, NotJson), Reply(401, [message |-> "Invalid API key"]),
      Reply(404, NotJson), Reply(500, NotJson), Reply(503, EmptyBody), Timeout, NetworkError }

\* health_check that takes any answer of the upstream for a working connection
health_check_AnyAnswer(reply) ==
    LET db_status == IF reply.kind # "response" THEN "error" ELSE "connected"
    IN  Response(200,
                 [ status |-> IF db_status = "connected" THEN "healthy" ELSE "unhealthy",
                   details |-> [database |-> db_status, services |-> "operational"],
                   version |-> "1.0.0" ], {})

\* health_check, given what the probe met: the httpx client raised, or
\* raise_for_status raised for a 4xx/5xx answer; the timestamp is left out
health_check(reply) ==
    LET db_status == IF reply.kind # "response" \/ reply.status >= 400
                     THEN "error" ELSE "connected"
    IN  Response(200,
                 [ status |-> IF db_status = "connected" THEN "healthy" ELSE "unhealthy",
                   details |-> [database |-> db_status, services |-> "operational"],
                   version |-> "1.0.0" ], {})

GetHealth ==
    /\ \E reply \in ProbeReplies :
           Exchanged(Exchange("health", NoneStr, <<Call("rest", NoneStr)>>, reply, NoResult,
                              health_check(reply)))
    /\ UNCHANGED <<env, usersVars>>

\* the /auth endpoints, one exchange after the other, under any ENVIRONMENT
InitAuth == InitUsers /\ audit = TRUE /\ env \in Environments /\ jar = EmptyJar /\ exch = NoExchange

NextAuth ==
    \/ PostSignIn
    \/ PostSignOut
    \/ PostRefresh
    \/ PostVerifyToken
    \/ PostSignUp
    \/ PostChangePassword
    \/ PostResetPassword
    \/ GetVerifyEmail
    \/ DecodeJwt
    \/ GetHealth
    \/ GetOAuthLogin

SpecAuth == InitAuth /\ [][NextAuth]_vars

\* one request to sign-up or to change-password, with any password of the
\* characters of the model, or such a password ending with a quote instead
Passwords ==
    LET plain == UNION {[1..n -> PasswordChars] : n \in 0..MaxPwLen}
    IN  plain \cup {[pw EXCEPT ![Len(pw)] = Quote] : pw \in plain \ {<< >>}}

\* what the upstream answers in the validation requests
PwReplies == {Reply(200, [id |-> "u1"]), Timeout}

ValidateSignUp ==
    /\ exch = NoExchange
    /\ \E password \in Passwords, reply \in PwReplies : Exchanged(SignUpExchange(password, reply))
    /\ UNCHANGED <<env, usersVars>>

ValidateChangePassword ==
    /\ exch = NoExchange
    /\ \E password \in Passwords, reply \in PwReplies :
           Exchanged(ChangePasswordExchange(password, reply))
    /\ UNCHANGED <<env, usersVars>>

InitPw == InitUsers /\ InitAuthIdle /\ audit = TRUE

NextPw == ValidateSignUp \/ ValidateChangePassword

SpecPw == InitPw /\ [][NextPw]_vars

-----------------------------------------------------------------------------
(* Properties of the auth gate and of settings provisioning.               *)

\* the user ids a token of the model can name
Subs == {"u1", "ghost"}

\* C1: a failure of a provisioning step performed during authentication
\* (constructing the repository or the client, check_user_exists,
\* ensure_user_settings) never fails the request: the gate still returns the
\* principal.
C1_ProvisioningNeverFailsRequest ==
    \A r \in Requests :
        req[r].provFailed =>
            /\ req[r].gate = "Authenticated"
            /\ TruthyDict(req[r].user)
            /\ ~(req[r].status = 500 /\ ~req[r].handlerRan)

\* C2: an OPTIONS request passes the gate at once with no principal and no
\* error: no token is read or decoded, no provisioning call is made and no
\* 401/403 is produced, whatever its Authorization header.
C2_PreflightBypassesAuth ==
    \A r \in Requests :
        (req[r].method = "OPTIONS" /\ req[r].pc \notin {"idle", "gate"}) =>
            /\ req[r].gate = "Bypassed"
            /\ req[r].user = NoneDict
            /\ req[r].token = EmptyCredentials
            /\ req[r].decodes = 0
            /\ req[r].nCheck = 0 /\ req[r].nEnsure = 0 /\ req[r].nTable = 0
            /\ req[r].status \notin {Unauthorized, Forbidden}

\* an answered OPTIONS request that carried a token that verifies nowhere
C2_Witness ==
    \E r \in Requests :
        /\ req[r].method = "OPTIONS"
        /\ req[r].pc = "done"
        /\ req[r].header = [scheme |-> "Bearer", credentials |-> GarbageToken]

\* the headers that carry no bearer token that verifies: no header, no
\* credentials, another scheme, not a JWT, a wrong signature, an expired token
C3_BadHeaders ==
    { NoneDict,
      [scheme |-> "Bearer", credentials |-> EmptyCredentials],
      [scheme |-> "bearer", credentials |-> TokU1],
      [scheme |-> "Basic", credentials |-> TokU1],
      [scheme |-> "Bearer", credentials |-> GarbageToken],
      [scheme |-> "Bearer", credentials |-> TokU1WrongKey],
      [scheme |-> "Bearer", credentials |-> TokU1Expired] }

\* C3: a request other than OPTIONS whose bearer token is absent, malformed,
\* of the wrong scheme or fails verification is rejected with 401 or 403; the
\* handler does not run and no provisioning call is made.
C3_BadTokenRejected ==
    \A r \in Requests :
        /\ ( /\ req[r].method # "OPTIONS"
             /\ req[r].pc \notin {"idle", "gate"}
             /\ req[r].header \in C3_BadHeaders ) => req[r].gate = "Rejected"
        /\ req[r].gate = "Rejected" =>
             /\ req[r].pc = "done"
             /\ req[r].status \in {Unauthorized, Forbidden}
             /\ ~req[r].handlerRan
             /\ req[r].nCheck = 0 /\ req[r].nEnsure = 0 /\ req[r].nTable = 0

\* a rejected request whose token was signed with another secret
C3_Witness ==
    \E r \in Requests :
        /\ req[r].method = "PUT"
        /\ req[r].header = [scheme |-> "Bearer", credentials |-> TokU1WrongKey]
        /\ req[r].pc = "done"
        /\ req[r].status = Forbidden

\* the fields of a settings record a PUT may supply
SettingsFields == {"theme", "language", "timezone"}

\* C4: an update changes exactly the fields its body supplies and leaves every
\* other field of the stored record at its prior value.
C4_PartialUpdateLaw ==
    \A r \in Requests :
        ( /\ req[r].handler = "update_user_settings"
          /\ req[r].pc = "done"
          /\ req[r].status = 200 ) =>
            \A f \in SettingsFields :
                req[r].result[f] = IF req[r].body[f] = Absent
                                   THEN req[r].before[f] ELSE req[r].body[f]

-----------------------------------------------------------------------------
(* Properties of the /auth endpoints.                                      *)

\* the password policy: at least 8 characters, with an uppercase letter, a
\* lowercase letter, a digit and a symbol of the fixed punctuation set
MeetsPolicy(pw) ==
    /\ Len(pw) >= 8
    /\ \E i \in DOMAIN pw : pw[i] = "P"
    /\ \E i \in DOMAIN pw : pw[i] = "a"
    /\ \E i \in DOMAIN pw : pw[i] = "1"
    /\ \E i \in DOMAIN pw : pw[i] = "!"

\* C7: sign-up and change-password alike answer 422, without an upstream
\* call, to every password that violates the policy, and let every password
\* that meets it through to the gateway: they accept the same passwords.
C7_PasswordPolicy ==
    exch.endpoint \in {"sign_up", "change_password"} =>
        IF MeetsPolicy(exch.request)
        THEN exch.response.status # 422 /\ Len(exch.calls) = 1
        ELSE exch.response.status = 422 /\ exch.calls = << >>

\* a password of 8 characters that lacks only the symbol (the quote is not
\* one) is rejected by change-password
C7_Witness ==
    /\ exch.endpoint = "change_password"
    /\ exch.request = <<"P", "a", "1", "a", "a", "a", "a", "'">>
    /\ exch.response.status = 422

\* C8: sign-in answers 200 and sets access_token and refresh_token to the
\* tokens of the session when the gateway result is a success, and answers
\* 401 with success=false and an error, setting no cookie, when it is not.
C8_SignInCookies ==
    exch.endpoint = "sign_in" =>
        IF exch.result.success
        THEN /\ exch.response.status = 200
             /\ \E a, b \in exch.response.cookies :
                    /\ exch.response.cookies = {a, b}
                    /\ a.op = "set" /\ a.key = "access_token"
                    /\ a.value = exch.result.session.access_token
                    /\ b.op = "set" /\ b.key = "refresh_token"
                    /\ b.value = exch.result.session.refresh_token
             /\ jar.access_token = exch.result.session.access_token
             /\ jar.refresh_token = exch.result.session.refresh_token
        ELSE /\ exch.response.status = 401
             /\ exch.response.content.success = FALSE
             /\ "error" \in DOMAIN exch.response.content
             /\ exch.response.cookies = {}

\* a failed sign-in of a client that holds a session: its cookies stay
C8_Witness ==
    /\ exch.endpoint = "sign_in"
    /\ ~exch.result.success
    /\ exch.response.status = 401
    /\ jar.refresh_token = "rt2"

\* the strings are equal up to the case of their letters
SameIgnoringCase(a, b) ==
    /\ Len(a) = Len(b)
    /\ \A i \in DOMAIN a :
          \/ a[i] = b[i]
          \/ a[i] \in DOMAIN LowerOf /\ LowerOf[a[i]] = b[i]
          \/ b[i] \in DOMAIN LowerOf /\ LowerOf[b[i]] = a[i]

\* C9: every cookie of a response, set or deleted, is HTTP-only and
\* same-site lax and is secure exactly when ENVIRONMENT is not "development"
\* in any case; a cookie that is set lives 900 seconds (access_token) or
\* 604800 seconds (refresh_token).
C9_CookieAttributes ==
    \A c \in exch.response.cookies :
        /\ c.httponly
        /\ c.samesite = "lax"
        /\ c.secure = ~SameIgnoringCase(env, Development)
        /\ c.op = "set" => /\ c.key \in {"access_token", "refresh_token"}
                           /\ c.key = "access_token" => c.max_age = 900
                           /\ c.key = "refresh_token" => c.max_age = 604800
        /\ exch.endpoint = "sign_out" <=> c.op = "delete"

\* cookies are set under ENVIRONMENT "DEVELOPMENT": they are not secure
C9_Witness ==
    /\ env = <<"D", "E", "V", "E", "L", "O", "P", "M", "E", "N", "T">>
    /\ exch.endpoint \in {"sign_in", "refresh"}
    /\ \E c \in exch.response.cookies : c.op = "set" /\ ~c.secure

\* the two deletions of sign-out
BothDeleted(cookies) ==
    /\ \E c \in cookies : c.op = "delete" /\ c.key = "access_token"
    /\ \E c \in cookies : c.op = "delete" /\ c.key = "refresh_token"
    /\ Cardinality(cookies) = 2

\* C10 as stated: sign-out answers 200 with success=true and deletes both
\* cookies whatever the request and the upstream; the upstream logout is
\* called once, with the value of the refresh_token cookie, when the request
\* has the cookie, and is not called when the request has none.
C10_SignOutAsStated ==
    exch.endpoint = "sign_out" =>
        /\ exch.response.status = 200
        /\ exch.response.content.success = TRUE
        /\ BothDeleted(exch.response.cookies)
        /\ exch.calls = IF exch.request # NoneStr
                        THEN <<Call("logout", exch.request)>>
                        ELSE << >>

\* C10: sign-out answers 200 with success=true and deletes both cookies
\* whatever the request and the upstream; the upstream logout is called once,
\* with the value of the refresh_token cookie, when the request has the cookie
\* with a value that is not empty, and is not called when the request has no
\* such cookie or has it with an empty value.
C10_SignOut ==
    exch.endpoint = "sign_out" =>
        /\ exch.response.status = 200
        /\ exch.response.content.success = TRUE
        /\ BothDeleted(exch.response.cookies)
        /\ jar = EmptyJar
        /\ exch.calls = IF exch.request \notin {NoneStr, ""}
                        THEN <<Call("logout", exch.request)>>
                        ELSE << >>

\* a sign-out with a cookie whose upstream logout is unreachable
C10_Witness ==
    /\ exch.endpoint = "sign_out"
    /\ exch.request = "rt1"
    /\ exch.calls = <<Call("logout", "rt1")>>
    /\ ~exch.result.success
    /\ exch.response.status = 200

-----------------------------------------------------------------------------
(* Properties of token refresh.                                            *)

\* C11: a refresh without a refresh_token cookie, or with an empty one, is
\* answered 401 {success: false, error: "Refresh token not found"}; no
\* upstream call is made and no cookie is set.
C11_RefreshWithoutCookie ==
    (exch.endpoint = "refresh" /\ exch.request \in {NoneStr, ""}) =>
        /\ exch.response.status = 401
        /\ exch.response.content = [success |-> FALSE, error |-> "Refresh token not found"]
        /\ exch.calls = << >>
        /\ exch.reply = NoReply
        /\ exch.response.cookies = {}

\* a client that holds a session sends a refresh with an empty cookie
C11_Witness ==
    /\ exch.endpoint = "refresh"
    /\ exch.request = ""
    /\ exch.response.status = 401
    /\ jar.refresh_token = "rt1"

\* the upstream answered a refresh with a new session
IssuedSession(reply) ==
    /\ reply.kind = "response"
    /\ reply.status = 200
    /\ reply.json \notin {NotJson, EmptyBody, NotObject}

\* C12: a refresh with a refresh_token cookie forwards the value of the
\* cookie upstream, once. When the upstream issues a session the answer is
\* 200 and both cookies are replaced by the tokens of that session; when the
\* upstream rejects or cannot be reached the answer is 401 with
\* success=false, no cookie is set or deleted, and the client keeps what it
\* held.
C12_RefreshRotation ==
    [][ (exch'.endpoint = "refresh" /\ exch'.request \notin {NoneStr, ""}) =>
            /\ exch'.calls = <<Call("token", exch'.request)>>
            /\ IF IssuedSession(exch'.reply)
               THEN /\ exch'.response.status = 200
                    /\ exch'.response.cookies =
                           { SetCookie("access_token", exch'.reply.json.access_token,
                                       ACCESS_TOKEN_EXPIRES_IN_SECONDS),
                             SetCookie("refresh_token", exch'.reply.json.refresh_token,
                                       REFRESH_TOKEN_EXPIRES_IN_SECONDS) }
                    /\ jar' = [ access_token |-> exch'.reply.json.access_token,
                                refresh_token |-> exch'.reply.json.refresh_token ]
               ELSE /\ exch'.response.status = 401
                    /\ exch'.response.content.success = FALSE
                    /\ exch'.response.cookies = {}
                    /\ jar' = jar ]_vars

\* the session rt1 was refreshed and the client now holds rt2
C12_Witness ==
    /\ exch.endpoint = "refresh"
    /\ exch.request = "rt1"
    /\ exch.response.status = 200
    /\ jar = [access_token |-> "at2", refresh_token |-> "rt2"]

-----------------------------------------------------------------------------
(* Properties of the gateway results.                                      *)

\* the endpoints whose gateway operation returns an AuthResult
GatewayEndpoints ==
    { "sign_up", "sign_in", "sign_out", "reset_password", "change_password",
      "verify_email", "refresh", "verify_token" }

\* the payload a successful result of the operation of an endpoint carries
Payload(endpoint) ==
    IF endpoint = "sign_in" THEN {"user", "session"}
    ELSE IF endpoint = "refresh" THEN {"session"}
    ELSE IF endpoint = "verify_token" THEN {"user"}
    ELSE {"message"}

\* C13: every result of a gateway operation, whatever the upstream answered,
\* carries an error when success is false and the payload of its operation
\* when success is true.
C13_AuthResultShape ==
    (exch.endpoint \in GatewayEndpoints /\ exch.result # NoResult) =>
        IF exch.result.success
        THEN Payload(exch.endpoint) \subseteq DOMAIN exch.result
        ELSE "error" \in DOMAIN exch.result /\ exch.result.error # NoneStr

\* the upstream answered a password reset with a JSON body that is no
\* object: a failure result with an error
C13_Witness ==
    /\ exch.endpoint = "reset_password"
    /\ exch.reply = Reply(502, NotObject)
    /\ exch.result = ServiceUnavailable

\* C14: token decoding returns the claims or None, and every gateway
\* operation returns a result with a boolean success flag; neither lets an
\* exception through, whatever the token and whatever the upstream answered
\* (200, another status with a JSON body, with a body that is not JSON or is
\* empty, a timeout, a network error).
C14_NeverRaises ==
    /\ exch.endpoint = "decode_jwt" =>
           exch.result = NoneDict \/ exch.result = exch.request.claims
    /\ (exch.endpoint \in GatewayEndpoints /\ exch.result # NoResult) =>
           /\ "raised" \notin DOMAIN exch.result
           /\ "success" \in DOMAIN exch.result
           /\ exch.result.success \in BOOLEAN

\* an expired token was decoded: the answer is None
C14_Witness ==
    /\ exch.endpoint = "decode_jwt"
    /\ exch.request = TokU1Expired
    /\ exch.result = NoneDict

-----------------------------------------------------------------------------
(* Properties of the settings endpoints.                                   *)

\* C15: when ensure, fetch or update fails inside GET or PUT
\* /users/me/settings for an authenticated user, the status is 404 when the
\* user account does not exist upstream, 401 when the upstream reports the
\* foreign-key violation of an owner mismatch, and 500 for every other
\* failure, a missing record after ensure and an empty answer of ensure
\* included.
C15_SettingsFailureStatus ==
    \A r \in Requests :
        ( /\ req[r].handler \in {"get_user_settings", "update_user_settings"}
          /\ req[r].pc = "done"
          /\ req[r].raised # NoneDict ) =>
            req[r].status = IF req[r].raised = UserMissingError THEN 404
                            ELSE IF req[r].raised = FkError THEN 401
                            ELSE 500

-----------------------------------------------------------------------------
(* Properties of the /auth responses.                                      *)

\* C16 as stated: every error response includes a success flag that is
\* false and an error field.
C16_ErrorShapeAsStated ==
    exch.response.status >= 400 =>
        /\ "success" \in DOMAIN exch.response.content
        /\ exch.response.content.success = FALSE
        /\ "error" \in DOMAIN exch.response.content

\* C16: every error response an /auth handler produces from a gateway
\* failure or a missing refresh cookie includes a success flag that is false
\* and an error field; the answer to a validation failure (422) carries a
\* detail field alone.
C16_ErrorShape ==
    exch.response.status >= 400 =>
        IF exch.response.status = 422
        THEN DOMAIN exch.response.content = {"detail"}
        ELSE /\ "success" \in DOMAIN exch.response.content
             /\ exch.response.content.success = FALSE
             /\ "error" \in DOMAIN exch.response.content
             /\ exch.response.content.error # NoneStr

\* a sign-up whose password fails validation: 422 with a detail
C16_Witness ==
    /\ exch.endpoint = "sign_up"
    /\ exch.response.status = 422
    /\ exch.response.content = [detail |-> "Password must be at least 8 characters long"]

\* C17: verify-email always answers 302 without a JSON body, to the page
\* /auth/email-verified of the frontend; the Location carries success=true
\* exactly when the gateway result is a success and otherwise success=false
\* with an error; the gateway is called once, with the token of the path.
C17_VerifyEmailRedirect ==
    exch.endpoint = "verify_email" =>
        /\ exch.response.status = 302
        /\ exch.response.content = NoneDict
        /\ exch.response.location.url = "http://localhost:3000/auth/email-verified"
        /\ exch.response.location.query.success = IF exch.result.success THEN "true" ELSE "false"
        /\ exch.result.success => DOMAIN exch.response.location.query = {"success"}
        /\ ~exch.result.success =>
               /\ DOMAIN exch.response.location.query = {"success", "error"}
               /\ exch.response.location.query.error = exch.result.error
        /\ exch.calls = <<Call("verify", exch.request)>>

\* an email verification the upstream could not be reached for
C17_Witness ==
    /\ exch.endpoint = "verify_email"
    /\ exch.request = "tok2"
    /\ exch.reply = Timeout
    /\ exch.response.location.query =
           [success |-> "false", error |-> "Service unavailable. Please try again later."]

\* C18: a sign-up with a valid body answers 200 with success=true and the
\* account-created message when the gateway result is a success, and 400
\* with success=false and the fields error, error_code and details when it
\* is a failure of any kind.
C18_SignUpResponse ==
    (exch.endpoint = "sign_up" /\ MeetsPolicy(exch.request)) =>
        IF exch.result.success
        THEN /\ exch.response.status = 200
             /\ exch.response.content =
                    [ success |-> TRUE,
                      message |-> "Account created successfully. Please check your email to confirm your account." ]
        ELSE /\ exch.response.status = 400
             /\ exch.response.content.success = FALSE
             /\ {"error", "error_code", "details"} \subseteq DOMAIN exch.response.content
             /\ exch.response.content.error = exch.result.error

\* a sign-up that timed out upstream: 400 with the code and empty details
C18_Witness ==
    /\ exch.endpoint = "sign_up"
    /\ exch.reply = Timeout
    /\ exch.response.status = 400
    /\ exch.response.content.error_code = "timeout"
    /\ exch.response.content.details = EmptyDict

-----------------------------------------------------------------------------
(* Properties of token decoding.                                           *)

\* a JWT signed with another secret, or whose exp is before now
Refused(token, now) ==
    /\ token.wellformed
    /\ \/ token.key # JwtSecret
       \/ "exp" \in DOMAIN token.claims /\ token.claims.exp < now

\* a JWT signed with the configured secret and not expired at now
ValidToken(token, now) ==
    /\ token.wellformed
    /\ token.key = JwtSecret
    /\ ~("exp" \in DOMAIN token.claims /\ token.claims.exp < now)

\* the request has had its bearer token decoded
Decoded(q) ==
    /\ q.header # NoneDict
    /\ q.header.credentials # EmptyCredentials
    /\ q.decodes > 0

\* C19: decoding fails for every token signed with another secret or whose
\* exp is in the past, in both decoders; a request whose token was refused at
\* its latest decoding is rejected with 401 or 403, is never Authenticated,
\* gets no principal and does not run its handler.
C19_RefusedTokens ==
    /\ \A token \in Tokens, now \in 0..MaxClock :
           Refused(token, now) =>
               /\ decode_jwt(token, now) = NoneDict
               /\ ~verify_jwt(token, now)
               /\ AuthService_decode_jwt(token, now) = NoneDict
    /\ \A r \in Requests :
           /\ (Decoded(req[r]) /\ Refused(req[r].header.credentials, req[r].clock)) =>
                  /\ req[r].gate = "Rejected"
                  /\ req[r].pc = "done"
                  /\ req[r].status \in {Unauthorized, Forbidden}
                  /\ req[r].user = NoneDict
                  /\ ~req[r].handlerRan
           /\ ( /\ req[r].header # NoneDict
                /\ req[r].header.credentials # EmptyCredentials
                /\ Refused(req[r].header.credentials, 0) ) =>
                  /\ req[r].gate # "Authenticated"
                  /\ req[r].user = NoneDict

\* a token that passed JWTBearer at time 1 and had expired when
\* get_current_user decoded it at time 2
C19_Witness ==
    \E r \in Requests :
        /\ req[r].header = [scheme |-> "Bearer", credentials |-> TokU1Expiring]
        /\ req[r].decodes = 2
        /\ req[r].clock = 2
        /\ req[r].status = Unauthorized
        /\ req[r].gate = "Rejected"

\* C20 as stated: the claim set decoded from a valid token contains sub.
C20_SubAsStated ==
    \A r \in Requests :
        req[r].gate = "Authenticated" => "sub" \in DOMAIN req[r].user

\* C20: for every valid token decoding returns the claim set the token
\* carries, which contains sub exactly when the token carries one; the
\* principal of an Authenticated request is that claim set.
C20_DecodeReturnsClaims ==
    /\ \A token \in Tokens, now \in 0..MaxClock :
           ValidToken(token, now) =>
               /\ decode_jwt(token, now) = token.claims
               /\ AuthService_decode_jwt(token, now) = token.claims
    /\ \A r \in Requests :
           req[r].gate = "Authenticated" =>
               /\ ValidToken(req[r].header.credentials, req[r].clock)
               /\ req[r].user = req[r].header.credentials.claims
               /\ "sub" \in DOMAIN req[r].user <=>
                      "sub" \in DOMAIN req[r].header.credentials.claims

\* an Authenticated request whose valid token carries no sub
C20_Witness ==
    \E r \in Requests :
        /\ req[r].header = [scheme |-> "Bearer", credentials |-> TokNoSub]
        /\ req[r].gate = "Authenticated"
        /\ req[r].user = [email |-> "anon@example.com", exp |-> FarExp]

-----------------------------------------------------------------------------
(* Properties of the health endpoint.                                      *)

\* C21: GET /health always answers 200; its status is "healthy" exactly
\* when details.database is "connected" and "unhealthy" exactly when it is
\* "error", which is when the probe raised or was answered 4xx/5xx;
\* details.services is always "operational".
C21_Health ==
    exch.endpoint = "health" =>
        LET content == exch.response.content
            failed == exch.reply.kind # "response" \/ exch.reply.status >= 400
        IN  /\ exch.response.status = 200
            /\ content.status \in {"healthy", "unhealthy"}
            /\ content.details.database \in {"connected", "error"}
            /\ content.status = "healthy" <=> content.details.database = "connected"
            /\ content.status = "unhealthy" <=> content.details.database = "error"
            /\ content.details.database = "error" <=> failed
            /\ content.details.services = "operational"

\* a probe answered 503: 200 and unhealthy
C21_Witness ==
    /\ exch.endpoint = "health"
    /\ exch.reply = Reply(503, EmptyBody)
    /\ exch.response.status = 200
    /\ exch.response.content.status = "unhealthy"

-----------------------------------------------------------------------------
(* Properties of the gateway under transient failures.                     *)

\* the upstream call of the exchange timed out or met a network error
Transient == exch.endpoint \in GatewayEndpoints /\ exch.reply.kind \in {"timeout", "network_error"}

\* C22 as stated: after a timeout or a network error the failure result of
\* every gateway operation carries a connection/timeout error code.
C22_ErrorCodeAsStated ==
    Transient =>
        /\ exch.result.success = FALSE
        /\ "error_code" \in DOMAIN exch.result
        /\ exch.result.error_code \in {"timeout", "connection_error"}

\* C22: after a timeout or a network error every gateway operation returns
\* a failure result with a fixed error; sign_up carries the error code
\* "timeout" or "connection_error", the other seven operations carry the
\* message "Service unavailable. Please try again later." and no error code.
C22_TransientFailure ==
    Transient =>
        /\ exch.result.success = FALSE
        /\ IF exch.endpoint = "sign_up"
           THEN /\ DOMAIN exch.result = {"success", "error", "error_code"}
                /\ exch.result.error_code =
                       IF exch.reply.kind = "timeout" THEN "timeout" ELSE "connection_error"
                /\ exch.result.error \in
                       { "The authentication service is taking too long to respond. Please try again later.",
                         "Failed to connect to the authentication service. Please check your network connection and try again." }
           ELSE exch.result =
                    [success |-> FALSE, error |-> "Service unavailable. Please try again later."]

\* a sign-in that timed out: the generic message, no error code
C22_Witness ==
    /\ exch.endpoint = "sign_in"
    /\ exch.reply = Timeout
    /\ exch.result.success = FALSE
    /\ "error_code" \notin DOMAIN exch.result

\* C23: every exchange issues at most one upstream request, and exactly one
\* when a gateway operation that calls upstream was invoked, whether it
\* succeeded or failed; oauth_initiate and token decoding issue none.
C23_SingleUpstreamCall ==
    /\ Len(exch.calls) <= 1
    /\ exch.endpoint \in {"oauth", "decode_jwt"} => exch.calls = << >>
    /\ exch.calls = << >> <=> exch.reply = NoReply
    /\ (exch.endpoint \in GatewayEndpoints /\ exch.result # NoResult) => Len(exch.calls) = 1

\* a refresh whose upstream call timed out: one call, no second attempt
C23_Witness ==
    /\ exch.endpoint = "refresh"
    /\ exch.reply = Timeout
    /\ exch.result.success = FALSE
    /\ exch.calls = <<Call("token", "rt1")>>

-----------------------------------------------------------------------------
(* Properties of the sign-up error messages.                               *)

\* the upstream answered the sign-up with an error that is a JSON object
SignUpRefused ==
    /\ exch.endpoint = "sign_up"
    /\ exch.reply.kind = "response"
    /\ exch.reply.status # 200
    /\ exch.reply.json \notin {NotJson, EmptyBody, NotObject}

\* the error code of an upstream error body: error_code, else code
UpstreamCode(json) ==
    OrElse(GetOr(json, "error_code", NoneStr), GetOr(json, "code", "unknown_code"))

\* the message of an upstream error body: msg, else message
UpstreamMessage(json) ==
    OrElse(GetOr(json, "msg", NoneStr), GetOr(json, "message", "Unknown error during signup"))

\* the codes of the table of user-facing messages
KnownCodes ==
    { "user_already_registered", "invalid_email", "weak_password", "email_taken",
      "network_error", "unexpected_failure", "database_error", "500" }

\* C24 as stated: a known upstream code gives its fixed message, any other
\* code gives the upstream message unchanged.
C24_MessagesAsStated ==
    SignUpRefused =>
        LET code == UpstreamCode(exch.reply.json)
        IN  exch.result.error =
                IF code \in KnownCodes THEN error_messages[MessageKey(code)]
                ELSE UpstreamMessage(exch.reply.json)

\* C24: on an upstream sign-up failure whose message does not speak of a
\* database error, a known upstream code gives its fixed message and any
\* other code gives the upstream message unchanged; a message that speaks of
\* a database error gives the fixed database message whatever the code.
C24_Messages ==
    SignUpRefused =>
        LET code == UpstreamCode(exch.reply.json)
            message == UpstreamMessage(exch.reply.json)
        IN  /\ exch.result.error_code = code
            /\ exch.result.error =
                   IF message \in DatabaseErrorMessages
                   THEN "Database error encountered. This could be due to a temporary issue or a unique constraint violation. Please try again with a different email address."
                   ELSE IF code \in KnownCodes THEN error_messages[MessageKey(code)]
                   ELSE message

\* the upstream refused with the known code unexpected_failure and a message
\* that speaks of a database error
C24_Witness ==
    /\ SignUpRefused
    /\ exch.reply = Reply(500, [ code |-> "500", error_code |-> "unexpected_failure",
                                 msg |-> "Database error saving new user" ])
    /\ exch.result.error_code = "unexpected_failure"
    /\ exch.result.error # error_messages.unexpected_failure

-----------------------------------------------------------------------------
(* Properties of the cookies as a pair.                                    *)

\* the Set-Cookie headers set access_token and refresh_token, and only them
BothSet(cookies) ==
    /\ \E c \in cookies : c.op = "set" /\ c.key = "access_token"
    /\ \E c \in cookies : c.op = "set" /\ c.key = "refresh_token"
    /\ Cardinality(cookies) = 2

\* C25: every response of an /auth endpoint sets both cookies, deletes both
\* or touches neither, and a client that started without cookies and applied
\* every response holds both cookies or neither.
C25_CookiePairs ==
    /\ \/ exch.response.cookies = {}
       \/ BothSet(exch.response.cookies)
       \/ BothDeleted(exch.response.cookies)
    /\ jar.access_token = NoneStr <=> jar.refresh_token = NoneStr
    /\ BothSet(exch.response.cookies) =>
           exch.endpoint \in {"sign_in", "refresh"} /\ exch.response.status = 200
    /\ BothDeleted(exch.response.cookies) <=> exch.endpoint = "sign_out"

\* a refused refresh of a client that holds a session: neither cookie is
\* touched and the client holds both
C25_Witness ==
    /\ exch.endpoint = "refresh"
    /\ exch.response.status = Unauthorized
    /\ exch.response.cookies = {}
    /\ jar = [access_token |-> "at1", refresh_token |-> "rt1"]

\* C26: the result of verify_token never holds a session, whatever the
\* upstream answered, so POST /auth/verify-token sets no cookie and leaves
\* the client's cookies as they were; it answers 200 with the user when the
\* result is a success with a user that is not empty, and 401 otherwise.
C26_VerifyTokenNoCookies ==
    [][ exch'.endpoint = "verify_token" =>
            /\ "session" \notin DOMAIN exch'.result
            /\ exch'.response.cookies = {}
            /\ jar' = jar
            /\ exch'.calls = <<Call("user", exch'.request)>>
            /\ IF exch'.result.success /\ exch'.result.user # EmptyDict
               THEN /\ exch'.response.status = 200
                    /\ exch'.response.content = [success |-> TRUE, user |-> exch'.result.user]
               ELSE /\ exch'.response.status = Unauthorized
                    /\ exch'.response.content.success = FALSE
                    /\ exch'.response.content.error =
                           IF exch'.result.success THEN "Invalid token"
                           ELSE exch'.result.error ]_vars

\* the upstream answered 200 with an empty user object: 401
C26_Witness ==
    /\ exch.endpoint = "verify_token"
    /\ exch.reply = Reply(200, EmptyDict)
    /\ exch.result.success
    /\ exch.response.status = Unauthorized

-----------------------------------------------------------------------------
(* Properties of the gate's two decodings and of provisioning.             *)

\* C27: a request has a principal only after two decodings of its token
\* that both succeeded, and the principal is the claim set of the second;
\* a token that passed JWTBearer and fails the decoding of get_current_user
\* is rejected with 401 "Invalid token", with no provisioning call and
\* without running the handler; a token JWTBearer refuses is rejected with
\* 403 after one decoding.
C27_TwoDecodings ==
    \A r \in Requests :
        /\ req[r].user # NoneDict =>
               /\ req[r].decodes = 2
               /\ req[r].token = req[r].header.credentials
               /\ \E first \in 1..req[r].clock : verify_jwt(req[r].token, first)
               /\ req[r].user = decode_jwt(req[r].token, req[r].clock)
        /\ req[r].gate = "Authenticated" => req[r].user # NoneDict
        /\ (req[r].decodes = 2 /\ ~TruthyDict(decode_jwt(req[r].token, req[r].clock))) =>
               /\ req[r].gate = "Rejected"
               /\ req[r].pc = "done"
               /\ req[r].status = Unauthorized
               /\ req[r].detail = "Invalid token"
               /\ req[r].user = NoneDict
               /\ req[r].nCheck = 0 /\ req[r].nEnsure = 0 /\ req[r].nTable = 0
               /\ ~req[r].handlerRan
        /\ (req[r].gate = "Rejected" /\ req[r].decodes = 1) =>
               /\ req[r].status = Forbidden
               /\ ~verify_jwt(req[r].header.credentials, req[r].clock)

\* a PUT whose token passed JWTBearer at time 1 and had expired at time 2:
\* 401 and no provisioning
C27_Witness ==
    \E r \in Requests :
        /\ req[r].method = "PUT"
        /\ req[r].header = [scheme |-> "Bearer", credentials |-> TokU1Expiring]
        /\ req[r].decodes = 2
        /\ req[r].status = Unauthorized
        /\ req[r].detail = "Invalid token"
        /\ req[r].nCheck = 0

\* the step ends the ensure of the repository method of request r with an
\* exception
EnsureFailed(r) ==
    /\ req[r].ctx = "handler"
    /\ req[r].pc \in {"ensure_check", "ensure_rpc"}
    /\ req'[r].pc = "done"

Ghost(q) ==
    /\ q.user # NoneDict
    /\ TruthyStr(Get(q.user, "sub"))
    /\ ~CheckUserExistsRpc(Get(q.user, "sub"))

C30_NoRepositoryWithoutUserId ==
    \A r \in Requests :
        (req[r].gate = "Authenticated" /\ ~TruthyStr(Get(req[r].user, "sub"))) =>
            /\ req[r].user = req[r].token.claims
            /\ ~req[r].provFailed
            /\ req[r].nCheck = 0 /\ req[r].nEnsure = 0 /\ req[r].nTable = 0
            /\ req[r].raised = NoneDict
            /\ req[r].pc \in {"handler", "done"}
            /\ req[r].pc = "done" =>
                   /\ req[r].status = Unauthorized
                   /\ req[r].detail = "Unauthorized"

=============================================================================
